---- MODULE Spec2Model ----
(***************************************************************************)
(* A model of src/src/lib.rs: PriorityQueue<T, F>, a binary heap stored in *)
(* a Vec<T> with a boxed ordering predicate F: Fn(&T, &T) -> bool.         *)
(*                                                                         *)
(* Every public call (with_ordering, insert, take_front) runs to its end   *)
(* before the next one starts: a call in progress is a value of pc other   *)
(* than "idle", and each loop iteration of heapify, sift_down and the      *)
(* sift-up loop of insert is one step.                                     *)
(***************************************************************************)
EXTENDS Integers, Sequences, FiniteSets, TLC

\* Elements are the integers 0..MaxVal.
MaxVal == 2
\* The longest vector: the input of with_ordering has at most MaxLen
\* elements and insert is called only while the heap is shorter than MaxLen.
MaxLen == 4
\* usize is modelled UsizeBits wide (wrapping_sub and release-build `-` wrap
\* modulo 2^UsizeBits).
UsizeBits == 16

\* The runs with a partial order as the predicate: elements 0..PartialMaxVal,
\* vectors of at most PartialMaxLen elements.
PartialMaxVal == 3
PartialMaxLen == 5

Values == 0..MaxVal
PartialValues == 0..PartialMaxVal
UsizeModulus == 2 ^ UsizeBits

VARIABLES
    heap,     \* self.heap: Vec<T>, as a sequence (index k of the Vec is heap[k+1])
    cmp,      \* self.cmp: the predicate, as the set of <<a, b, outcome>> it can give
    pc,       \* position of the call in progress, "idle" between calls
    i,        \* local i of insert / sift_down
    parent,   \* local parent of insert
    hi,       \* heapify: the positions hi-1, ..., 0 are still to be sifted
    min,      \* take_front: the popped element, <<v>> or <<>> when none
    ret,      \* the value returned by the last completed call
    last,     \* the last call started: "new", "insert" or "take_front"
    element,  \* the argument of the last insert
    pre,      \* self.heap when the last call started
    data,     \* the input of with_ordering, kept until the first insert
    fresh,    \* no insert has been called since construction
    ref,      \* the elements a reference multiset holds (ascending sequence)
    out,      \* the elements returned by take_front since the last insert
    subs,     \* the values of i at which line 41 evaluated `i - 1` in the last insert
    acc,      \* the Vec indices the last step dereferenced
    cap,      \* heap.len() at the time of those accesses
    h0,       \* self.heap when the last sift_down of the last call started
    i0,       \* the argument of that sift_down, -1 when the call made none
    limit,    \* insert is called only while the heap is shorter than limit
    deep      \* some insert has swapped its element upwards twice or more

vars == <<heap, cmp, pc, i, parent, hi, min, ret, last, element, pre, data, fresh,
          ref, out, subs, acc, cap, h0, i0, limit, deep>>

(***************************************************************************)
(* Option<T> and ()                                                        *)
(***************************************************************************)
None == <<"None">>
Some(v) == <<"Some", v>>
Unit == <<"Unit">>

(***************************************************************************)
(* Vec helpers                                                             *)
(***************************************************************************)
At(h, k) == h[k + 1]

InRange(h, k) == 0 <= k /\ k < Len(h)

\* Mutation of Swap: position a is overwritten, position b keeps its element.
SwapOverwrites(h, a, b) == [h EXCEPT ![a + 1] = h[b + 1]]

\* Vec::swap(a, b)
Swap(h, a, b) == [h EXCEPT ![a + 1] = h[b + 1], ![b + 1] = h[a + 1]]

\* Vec::push
Push(h, v) == Append(h, v)

\* Mutation of PopRest: the last element is read but not removed.
PopRestKeepsLast(h) == h

\* Vec::pop on a non-empty Vec: the Vec that is left
PopRest(h) == SubSeq(h, 1, Len(h) - 1)

\* usize::wrapping_sub
WrappingSub(a, b) == (a - b) % UsizeModulus

(***************************************************************************)
(* The ordering predicate                                                  *)
(***************************************************************************)
\* The outcomes a call self.cmp(a, b) can have.
Cmp(a, b) == {o \in BOOLEAN : <<a, b, o>> \in cmp}

\* self.cmp(&self.heap[a], &self.heap[b]); an index out of range panics
\* before the predicate is called.
CmpAt(h, a, b) == IF InRange(h, a) /\ InRange(h, b) THEN Cmp(At(h, a), At(h, b)) ELSE {FALSE}

\* The predicate of a deterministic relation R (a set of pairs) on the
\* elements V.
PredicateOn(V, R) == {t \in V \X V \X BOOLEAN : t[3] = (<<t[1], t[2]>> \in R)}

Predicate(R) == PredicateOn(Values, R)

\* The elements of T: the values the predicate is defined on.
Domain == {t[1] : t \in cmp}

\* |a, b| a < b, the ordering PriorityQueue::new passes
NaturalOrder == {p \in Values \X Values : p[1] < p[2]}
\* |a, b| a > b
ReverseOrder == {p \in Values \X Values : p[1] > p[2]}
\* |a, b| a <= b: reflexive, not a strict ordering
LeqRelation == {p \in Values \X Values : p[1] <= p[2]}

IsStrictWeakOrdering(R) ==
    /\ \A a \in Values : <<a, a>> \notin R
    /\ \A a, b \in Values : <<a, b>> \in R => <<b, a>> \notin R
    /\ \A a, b, c \in Values : <<a, b>> \in R /\ <<b, c>> \in R => <<a, c>> \in R
    /\ \A a, b, c \in Values :
          /\ <<a, b>> \notin R /\ <<b, a>> \notin R
          /\ <<b, c>> \notin R /\ <<c, b>> \notin R
          => <<a, c>> \notin R /\ <<c, a>> \notin R

\* The relation with the arguments exchanged.
Converse(R) == {<<p[2], p[1]>> : p \in R}

\* The strict weak orderings that agree with a < b wherever they order two
\* values, and their converses. Every strict weak ordering on Values is one
\* of the former after a renaming of the values, and the code reads elements
\* through the predicate only; the inputs range over all vectors of Values.
StrictWeakOrderings ==
    LET ascending == {R \in SUBSET NaturalOrder : IsStrictWeakOrdering(R)}
    IN  ascending \cup {Converse(R) : R \in ascending}

\* On PartialValues: irreflexive and transitive.
IsStrictPartialOrder(R) ==
    /\ \A a \in PartialValues : <<a, a>> \notin R
    /\ \A a, b, c \in PartialValues : <<a, b>> \in R /\ <<b, c>> \in R => <<a, c>> \in R

\* On PartialValues: incomparability is transitive.
IncomparabilityTransitive(R) ==
    \A a, b, c \in PartialValues :
        /\ <<a, b>> \notin R /\ <<b, a>> \notin R
        /\ <<b, c>> \notin R /\ <<c, b>> \notin R
        => <<a, c>> \notin R /\ <<c, a>> \notin R

\* The strict partial orders that are not strict weak orderings (as `a < b`
\* of a PartialOrd type can be, e.g. with a value comparable to no other)
\* and agree with a < b wherever they order two values; every such order on
\* PartialValues, converses included, is one of these after a renaming of the
\* values.
PartialNotWeakOrderings ==
    {R \in SUBSET {p \in PartialValues \X PartialValues : p[1] < p[2]} :
        IsStrictPartialOrder(R) /\ ~IncomparabilityTransitive(R)}

\* A predicate about which nothing is assumed: every call can give either outcome.
AnyPredicate == Values \X Values \X BOOLEAN

\* less(a, b) for the claims: the predicate can answer true.
Less(a, b) == <<a, b, TRUE>> \in cmp

(***************************************************************************)
(* Reference multiset (ascending sequences)                                *)
(***************************************************************************)
RECURSIVE SortedInsert(_, _)
SortedInsert(s, v) ==
    IF s = <<>> THEN <<v>>
    ELSE IF v <= Head(s) THEN <<v>> \o s
    ELSE <<Head(s)>> \o SortedInsert(Tail(s), v)

RECURSIVE SortAsc(_)
SortAsc(s) == IF s = <<>> THEN <<>> ELSE SortedInsert(SortAsc(Tail(s)), Head(s))

RECURSIVE RemoveOne(_, _)
RemoveOne(s, v) ==
    IF s = <<>> THEN <<>>
    ELSE IF Head(s) = v THEN Tail(s)
    ELSE <<Head(s)>> \o RemoveOne(Tail(s), v)

(***************************************************************************)
(* Index arithmetic                                                        *)
(***************************************************************************)
Left(k) == k * 2 + 1
Right(k) == k * 2 + 2

\* with_ordering, lines 14-17: the struct is built around the input vector,
\* heapify is about to run.
InitWith(orderings, maxlen) ==
    /\ cmp \in orderings
    /\ \E n \in 0..maxlen : heap \in [1..n -> Domain]
    /\ limit = maxlen
    /\ deep = FALSE
    /\ pc = "heapify"
    /\ hi = Len(heap)
    /\ i = 0
    /\ parent = 0
    /\ min = <<>>
    /\ ret = Unit
    /\ last = "new"
    /\ element = 0
    /\ pre = heap
    /\ data = heap
    /\ fresh = TRUE
    /\ ref = SortAsc(heap)
    /\ out = <<>>
    /\ subs = {}
    /\ acc = {}
    /\ cap = Len(heap)
    /\ h0 = <<>>
    /\ i0 = -1

Init == InitWith({Predicate(R) : R \in StrictWeakOrderings}, MaxLen)

(***************************************************************************)
(* heapify, lines 49-53                                                    *)
(***************************************************************************)
\* One iteration of `for i in (0..self.heap.len()).rev()`: call sift_down(i).
heapify_next ==
    /\ pc = "heapify"
    /\ hi > 0
    /\ hi' = hi - 1
    /\ i' = hi - 1
    /\ h0' = heap
    /\ i0' = hi - 1
    /\ pc' = "sift_down"
    /\ acc' = {}
    /\ cap' = Len(heap)
    /\ UNCHANGED <<heap, cmp, parent, min, ret, last, element, pre, data, fresh, ref, out, subs, limit, deep>>

\* Mutation of heapify_done: the loop may stop before the root is sifted
\* (`for i in (1..self.heap.len()).rev()`).
heapify_done_skips_root ==
    /\ pc = "heapify"
    /\ hi <= 1
    /\ pc' = "idle"
    /\ ret' = Unit
    /\ acc' = {}
    /\ cap' = Len(heap)
    /\ UNCHANGED <<heap, cmp, i, parent, hi, min, last, element, pre, data, fresh, ref, out, subs,
                   h0, i0, limit, deep>>

\* The range is exhausted: heapify returns and with_ordering returns the queue.
heapify_done ==
    /\ pc = "heapify"
    /\ hi = 0
    /\ pc' = "idle"
    /\ ret' = Unit
    /\ acc' = {}
    /\ cap' = Len(heap)
    /\ UNCHANGED <<heap, cmp, i, parent, hi, min, last, element, pre, data, fresh, ref, out, subs,
                   h0, i0, limit, deep>>

(***************************************************************************)
(* sift_down, lines 55-75                                                  *)
(***************************************************************************)
\* left < self.heap.len()
HasLeft(h, k) == Left(k) < Len(h)

\* Mutation of HasRight: off by one (`right <= self.heap.len()`).
HasRightOffByOne(h, k) == Right(k) <= Len(h)

\* right < self.heap.len()
HasRight(h, k) == Right(k) < Len(h)

\* Mutation of SiftDownCond: the right child is not tested.
SiftDownCondLeftOnly(h, k, bl, br) == HasLeft(h, k) /\ bl

\* The loop condition of lines 58-59, given the outcomes bl of
\* cmp(heap[left], heap[i]) and br of cmp(heap[right], heap[i]).
SiftDownCond(h, k, bl, br) == (HasLeft(h, k) /\ bl) \/ (HasRight(h, k) /\ br)

\* The indices the loop condition dereferences (|| and && short-circuit).
SiftDownCondReads(h, k, bl) ==
    (IF HasLeft(h, k) THEN {Left(k), k} ELSE {})
    \cup (IF ~(HasLeft(h, k) /\ bl) /\ HasRight(h, k) THEN {Right(k), k} ELSE {})

\* Mutation of Smallest: the left child is always chosen.
SmallestAlwaysLeft(h, k, bs) == Left(k)

\* Mutation of Smallest: the branches of line 62 are exchanged.
SmallestInverted(h, k, bs) ==
    IF HasRight(h, k) THEN (IF bs THEN Right(k) ELSE Left(k)) ELSE Left(k)

\* Lines 61-69, given the outcome bs of cmp(heap[left], heap[right]).
Smallest(h, k, bs) ==
    IF HasRight(h, k) THEN (IF bs THEN Left(k) ELSE Right(k)) ELSE Left(k)

\* The indices the loop body dereferences: the comparison of line 62 and the
\* swap of line 70.
SiftDownBodyReads(h, k, s) ==
    (IF HasRight(h, k) THEN {Left(k), Right(k)} ELSE {}) \cup {k, s}

\* One iteration of the loop: the condition holds, swap with the chosen child.
sift_down_swap ==
    /\ pc = "sift_down"
    /\ \E bl \in CmpAt(heap, Left(i), i), br \in CmpAt(heap, Right(i), i),
          bs \in CmpAt(heap, Left(i), Right(i)) :
          LET s == Smallest(heap, i, bs)
              reads == SiftDownCondReads(heap, i, bl) \cup SiftDownBodyReads(heap, i, s)
          IN  /\ SiftDownCond(heap, i, bl, br)
              /\ acc' = reads
              /\ cap' = Len(heap)
              /\ IF \A k \in reads : InRange(heap, k)
                 THEN /\ heap' = Swap(heap, i, s)
                      /\ i' = s
                      /\ pc' = "sift_down"
                 ELSE /\ pc' = "panic_bounds"
                      /\ UNCHANGED <<heap, i>>
    /\ UNCHANGED <<cmp, parent, hi, min, ret, last, element, pre, data, fresh, ref, out, subs,
                   h0, i0, limit, deep>>

\* The loop condition fails: sift_down returns, to heapify or to take_front
\* (which then returns Some(min), line 30).
sift_down_return ==
    /\ pc = "sift_down"
    /\ \E bl \in CmpAt(heap, Left(i), i), br \in CmpAt(heap, Right(i), i) :
          LET reads == SiftDownCondReads(heap, i, bl)
          IN  /\ ~SiftDownCond(heap, i, bl, br)
              /\ acc' = reads
              /\ cap' = Len(heap)
              /\ IF ~(\A k \in reads : InRange(heap, k))
                 THEN /\ pc' = "panic_bounds"
                      /\ UNCHANGED <<ret, ref, out>>
                 ELSE IF last = "new"
                 THEN /\ pc' = "heapify"
                      /\ UNCHANGED <<ret, ref, out>>
                 ELSE /\ pc' = "idle"
                      /\ ret' = Some(min[1])
                      /\ ref' = RemoveOne(ref, min[1])
                      /\ out' = Append(out, min[1])
    /\ UNCHANGED <<heap, cmp, i, parent, hi, min, last, element, pre, data, fresh, subs, h0, i0, limit, deep>>

(***************************************************************************)
(* take_front, lines 22-31                                                 *)
(***************************************************************************)
\* Mutation of IsEmpty: the guard of lines 23-25 is missing.
IsEmptyNever(h) == FALSE

\* self.heap.is_empty()
IsEmpty(h) == Len(h) = 0

\* Lines 23-25: the heap is empty, return None.
take_front_none ==
    /\ pc = "idle"
    /\ IsEmpty(heap)
    /\ ret' = None
    /\ last' = "take_front"
    /\ pre' = heap
    /\ acc' = {}
    /\ cap' = Len(heap)
    /\ h0' = <<>>
    /\ i0' = -1
    /\ UNCHANGED <<heap, cmp, pc, i, parent, hi, min, element, data, fresh, ref, out, subs, limit, deep>>

\* Mutation of take_front: line 27 is missing, the last element is popped
\* without the swap with the root.
take_front_without_swap ==
    /\ pc = "idle"
    /\ ~IsEmpty(heap)
    /\ acc' = {Len(heap) - 1}
    /\ cap' = Len(heap)
    /\ heap' = PopRest(heap)
    /\ min' = <<At(heap, Len(heap) - 1)>>
    /\ i' = 0
    /\ pc' = "sift_down"
    /\ last' = "take_front"
    /\ pre' = heap
    /\ h0' = heap'
    /\ i0' = 0
    /\ UNCHANGED <<cmp, parent, hi, ret, element, data, fresh, ref, out, subs, limit, deep>>

\* Lines 26-29: swap the root with the last element, pop it, call sift_down(0).
take_front ==
    /\ pc = "idle"
    /\ ~IsEmpty(heap)
    /\ LET lastidx == Len(heap) - 1
           reads == {0, lastidx}
       IN  /\ acc' = reads
           /\ cap' = Len(heap)
           /\ IF \A k \in reads : InRange(heap, k)
              THEN /\ heap' = PopRest(Swap(heap, 0, lastidx))
                   /\ min' = <<At(Swap(heap, 0, lastidx), lastidx)>>
                   /\ i' = 0
                   /\ pc' = "sift_down"
              ELSE /\ pc' = "panic_bounds"
                   /\ UNCHANGED <<heap, min, i>>
    /\ last' = "take_front"
    /\ pre' = heap
    /\ h0' = heap'
    /\ i0' = 0
    /\ UNCHANGED <<cmp, parent, hi, ret, element, data, fresh, ref, out, subs, limit, deep>>

(***************************************************************************)
(* insert, lines 33-43                                                     *)
(***************************************************************************)
\* Lines 34-37: push the element, i is its index, parent is computed with
\* wrapping_sub.
insert ==
    /\ pc = "idle"
    /\ Len(heap) < limit
    /\ \E e \in Domain :
          /\ element' = e
          /\ heap' = Push(heap, e)
          /\ ref' = SortedInsert(ref, e)
    /\ i' = Len(heap') - 1
    /\ parent' = WrappingSub(i', 1) \div 2
    /\ pc' = "sift_up"
    /\ last' = "insert"
    /\ pre' = heap
    /\ data' = <<>>
    /\ fresh' = FALSE
    /\ out' = <<>>
    /\ subs' = {}
    /\ acc' = {}
    /\ cap' = Len(heap')
    /\ h0' = <<>>
    /\ i0' = -1
    /\ UNCHANGED <<cmp, hi, min, ret, limit, deep>>

\* Mutation of SiftUpCond: the comparison is dropped, the element always
\* rises to the root.
SiftUpCondIgnoresCmp(k, b) == k /= 0

\* Mutation of SiftUpCond: the comparison is negated.
SiftUpCondNegated(k, b) == k /= 0 /\ ~b

\* The loop condition of line 38, given the outcome b of
\* cmp(heap[i], heap[parent]).
SiftUpCond(k, b) == k /= 0 /\ b

\* The indices the loop condition dereferences (&& short-circuits).
SiftUpCondReads(k, p) == IF k /= 0 THEN {k, p} ELSE {}

\* Lines 39-41 where `i - 1` does not panic: the new i is at least 1, or the
\* build has no overflow checks and the subtraction wraps.
sift_up_swap ==
    /\ pc = "sift_up"
    /\ \E b \in CmpAt(heap, i, parent) :
          LET reads == SiftUpCondReads(i, parent)
          IN  /\ SiftUpCond(i, b)
              /\ acc' = reads
              /\ cap' = Len(heap)
              /\ IF \A k \in reads : InRange(heap, k)
                 THEN /\ heap' = Swap(heap, i, parent)
                      /\ i' = parent
                      /\ parent' = WrappingSub(i', 1) \div 2
                      /\ subs' = subs \cup {i'}
                      /\ deep' = (deep \/ subs /= {})
                      /\ pc' = "sift_up"
                 ELSE /\ pc' = "panic_bounds"
                      /\ UNCHANGED <<heap, i, parent, subs, deep>>
    /\ UNCHANGED <<cmp, hi, min, ret, last, element, pre, data, fresh, ref, out, h0, i0, limit>>

\* Lines 39-41 in a build with overflow checks when the new i is 0:
\* `i - 1` panics with "attempt to subtract with overflow".
sift_up_overflow ==
    /\ pc = "sift_up"
    /\ \E b \in CmpAt(heap, i, parent) : SiftUpCond(i, b)
    /\ InRange(heap, i) /\ InRange(heap, parent)
    /\ parent = 0
    /\ heap' = Swap(heap, i, parent)
    /\ i' = parent
    /\ subs' = subs \cup {i'}
    /\ deep' = (deep \/ subs /= {})
    /\ pc' = "panic_overflow"
    /\ acc' = SiftUpCondReads(i, parent)
    /\ cap' = Len(heap)
    /\ UNCHANGED <<cmp, parent, hi, min, ret, last, element, pre, data, fresh, ref, out, h0, i0, limit>>

\* The loop condition fails: insert returns.
sift_up_return ==
    /\ pc = "sift_up"
    /\ \E b \in CmpAt(heap, i, parent) :
          LET reads == SiftUpCondReads(i, parent)
          IN  /\ ~SiftUpCond(i, b)
              /\ acc' = reads
              /\ cap' = Len(heap)
              /\ IF \A k \in reads : InRange(heap, k)
                 THEN /\ pc' = "idle"
                      /\ ret' = Unit
                 ELSE /\ pc' = "panic_bounds"
                      /\ UNCHANGED ret
    /\ UNCHANGED <<heap, cmp, i, parent, hi, min, last, element, pre, data, fresh, ref, out, subs,
                   h0, i0, limit, deep>>

Next ==
    \/ heapify_next
    \/ heapify_done
    \/ sift_down_swap
    \/ sift_down_return
    \/ take_front_none
    \/ take_front
    \/ insert
    \/ sift_up_swap
    \/ sift_up_overflow
    \/ sift_up_return

\* Any strict weak ordering as the predicate.
Spec == Init /\ [][Next]_vars

\* A malformed predicate: nothing assumed about its outcomes, or a <= b.
InitAny == InitWith({AnyPredicate, Predicate(LeqRelation)}, MaxLen)

SpecAny == InitAny /\ [][Next]_vars

\* A strict partial order that is not a strict weak ordering as the predicate.
InitPartial ==
    InitWith({PredicateOn(PartialValues, R) : R \in PartialNotWeakOrderings}, PartialMaxLen)

SpecPartial == InitPartial /\ [][Next]_vars

\* The steps of a call in progress; a call, once started, keeps running.
Running ==
    \/ heapify_next
    \/ heapify_done
    \/ sift_down_swap
    \/ sift_down_return
    \/ sift_up_swap
    \/ sift_up_overflow
    \/ sift_up_return

LiveSpec == InitAny /\ [][Next]_vars /\ WF_vars(Running)

(***************************************************************************)
(* Properties                                                              *)
(***************************************************************************)
\* The heap-order invariant of the vector h.
HeapOrdered(h) ==
    \A k \in 1..(Len(h) - 1) : ~Less(At(h, k), At(h, (k - 1) \div 2))

IsSome(r) == r[1] = "Some"

Panicked == pc \in {"panic_overflow", "panic_bounds"}

TypeOK ==
    /\ heap \in Seq(Domain)
    /\ Len(heap) <= limit
    /\ pc \in {"idle", "heapify", "sift_down", "sift_up", "panic_overflow", "panic_bounds"}

\* C1: for a strict weak ordering, between calls (after construction and
\* after every insert and take_front) no element is less than its parent.
C1_HeapOrderBetweenCalls == pc = "idle" => HeapOrdered(heap)

\* A three-element heap with a strictly smallest root, left by a take_front
\* that followed an insert.
C1_Witness ==
    /\ pc = "idle"
    /\ last = "take_front"
    /\ ~fresh
    /\ Len(heap) = 3
    /\ Less(heap[1], heap[2])
    /\ Less(heap[1], heap[3])

\* C2: construction never panics; when it returns, the vector is a
\* permutation of the input and satisfies the heap-order invariant; an empty
\* input gives an empty heap, and take_front on it returns None.
C2_Construction ==
    /\ last = "new" => ~Panicked
    /\ (pc = "idle" /\ last = "new") =>
          /\ Len(heap) = Len(data)
          /\ SortAsc(heap) = SortAsc(data)
          /\ HeapOrdered(heap)
          /\ data = <<>> => heap = <<>>
    /\ (pc = "idle" /\ last = "take_front" /\ fresh /\ data = <<>>) => ret = None

\* Construction has returned for a four-element input that did not satisfy
\* the invariant.
C2_Witness ==
    /\ pc = "idle"
    /\ last = "new"
    /\ Len(data) = 4
    /\ ~HeapOrdered(data)
    /\ heap /= data

\* C3: with the natural order, the take_front calls that follow construction
\* return the sorted input in ascending order, element by element, and None
\* is returned exactly by the calls made once all n elements are out.
C3_DrainSorted ==
    (cmp = Predicate(NaturalOrder) /\ fresh /\ pc = "idle") =>
        /\ Len(out) <= Len(data)
        /\ out = SubSeq(SortAsc(data), 1, Len(out))
        /\ last = "take_front" => (ret = None <=> pre = <<>>)
        /\ (last = "take_front" /\ ret = None) => Len(out) = Len(data)

\* A four-element unsorted input has been drained and the fifth call has
\* returned None.
C3_Witness ==
    /\ cmp = Predicate(NaturalOrder)
    /\ fresh
    /\ pc = "idle"
    /\ data = <<2, 1, 2, 0>>
    /\ out = <<0, 1, 2, 2>>
    /\ ret = None

\* C4: under any interleaving of insert and take_front, the element a
\* take_front returns is extreme among the elements the heap held when the
\* call started: none of them is less than it (so under the natural order
\* it is their minimum, as a sorted reference queue would return).
C4_ReturnsExtreme ==
    (pc = "idle" /\ last = "take_front" /\ pre /= <<>>) =>
        /\ IsSome(ret)
        /\ \E k \in 1..Len(pre) : pre[k] = ret[2]
        /\ \A k \in 1..Len(pre) : ~Less(pre[k], ret[2])
        /\ cmp = Predicate(NaturalOrder) => ret[2] = SortAsc(pre)[1]

\* A take_front after an insert returned an element that is less than
\* another one of a four-element heap and was not at the end of the vector.
C4_Witness ==
    /\ pc = "idle"
    /\ last = "take_front"
    /\ ~fresh
    /\ Len(pre) = 4
    /\ IsSome(ret)
    /\ \E k \in 1..Len(pre) : Less(ret[2], pre[k])
    /\ pre[4] /= ret[2]

\* C5: for every strict weak ordering, an element returned while draining
\* is never less than one returned before it; with a > b the drain is
\* descending, and with a < b on three values it is 0, 1, 2.
C5_DrainOrdered ==
    pc = "idle" =>
        /\ \A j, k \in 1..Len(out) : j < k => ~Less(out[k], out[j])
        /\ cmp = Predicate(ReverseOrder) =>
              \A j, k \in 1..Len(out) : j < k => out[j] >= out[k]
        /\ (cmp = Predicate(NaturalOrder) /\ fresh /\ SortAsc(data) = <<0, 1, 2>>
                /\ Len(out) = 3) => out = <<0, 1, 2>>

\* A drain under a > b that returned 2, 1, 0, 0 from an input in another order.
C5_Witness ==
    /\ pc = "idle"
    /\ cmp = Predicate(ReverseOrder)
    /\ data = <<0, 1, 0, 2>>
    /\ out = <<2, 1, 0, 0>>

\* C6: insert makes the vector exactly one longer; take_front on a non-empty
\* heap makes it exactly one shorter and returns Some; take_front on an empty
\* heap leaves it empty and returns None.
C6_SizeConservation ==
    /\ (last = "insert" /\ pc /= "panic_bounds") => Len(heap) = Len(pre) + 1
    /\ (pc = "idle" /\ last = "take_front" /\ pre /= <<>>) =>
          Len(heap) = Len(pre) - 1 /\ IsSome(ret)
    /\ (pc = "idle" /\ last = "take_front" /\ pre = <<>>) =>
          Len(heap) = 0 /\ ret = None

\* A take_front has shortened a heap that an insert had filled to four elements.
C6_Witness ==
    /\ pc = "idle"
    /\ last = "take_front"
    /\ ~fresh
    /\ Len(pre) = 4
    /\ Len(heap) = 3

\* C7: take_front on an empty heap returns None without panicking and leaves
\* the vector empty and the predicate as it was, however often it is called;
\* an insert and a take_front after it return the inserted element.
C7_EmptyTakeFront ==
    /\ [](  /\ (last = "take_front" /\ pre = <<>>) =>
                  pc = "idle" /\ ret = None /\ heap = <<>>
            /\ (pc = "idle" /\ last = "take_front" /\ Len(pre) = 1) =>
                  ret = Some(pre[1]) /\ heap = <<>>)
    /\ [][cmp' = cmp]_vars
    /\ [][(pc = "idle" /\ heap = <<>> /\ last' = "take_front") =>
            (pc' = "idle" /\ heap' = <<>> /\ ret' = None)]_vars

\* take_front was called on a heap that earlier calls had emptied.
C7_Witness ==
    /\ pc = "idle"
    /\ last = "take_front"
    /\ pre = <<>>
    /\ ret = None
    /\ ~fresh

\* C8: insert never fails, and line 41 evaluates `i - 1` only with i >= 1.
C8_NoUnderflow ==
    /\ pc /= "panic_overflow"
    /\ \A k \in subs : k >= 1

\* C9: whatever the predicate answers, every index that construction, insert
\* and take_front dereference is within 0..len-1 (no bounds panic).
C9_IndicesInRange ==
    /\ pc /= "panic_bounds"
    /\ \A k \in acc : 0 <= k /\ k < cap
    /\ (pc = "sift_up" /\ i = 0) => (\A k \in acc : k /= parent)

\* Under a <= b, the loop condition of sift_down has read the left child of
\* the root of a two-element vector, which has no right child.
C9_Witness ==
    /\ cmp = Predicate(LeqRelation)
    /\ last = "take_front"
    /\ Len(heap) = 2
    /\ i = 0
    /\ acc = {0, 1}

\* Each iteration of the sift_down loop strictly increases i, and each
\* iteration of the sift-up loop strictly decreases it.
LoopsAdvance ==
    /\ [][(pc = "sift_down" /\ pc' = "sift_down") => i' > i]_vars
    /\ [][(pc = "sift_up" /\ pc' = "sift_up") => i' < i]_vars

\* A call in progress returns unless `i - 1` panics on line 41.
ReturnsOrOverflows == (pc /= "idle") ~> (pc = "idle" \/ pc = "panic_overflow")

\* C10: every call reaches completion: a call in progress returns.
C10_EveryCallReturns == (pc /= "idle") ~> (pc = "idle")

\* C11: the stored elements are, as a multiset, the input plus the inserted
\* elements minus the returned ones (ref); an insert adds exactly its
\* argument, a take_front removes exactly the element it returns, and the
\* steps inside a call only permute the vector.
C11_ElementConservation ==
    /\ pc \in {"idle", "heapify", "sift_up", "panic_overflow"} => SortAsc(heap) = ref
    /\ (pc = "sift_down" /\ last = "new") => SortAsc(heap) = ref
    /\ (pc = "sift_down" /\ last = "take_front") =>
          SortedInsert(SortAsc(heap), min[1]) = ref
    /\ (pc = "idle" /\ last = "insert") =>
          SortAsc(heap) = SortedInsert(SortAsc(pre), element)
    /\ (pc = "idle" /\ last = "take_front" /\ pre /= <<>>) =>
          ret[1] = "Some" /\ SortAsc(pre) = SortedInsert(SortAsc(heap), ret[2])
    /\ (pc = "idle" /\ last = "take_front" /\ pre = <<>>) => heap = <<>>

\* After inserts, a take_front has returned one of two equal elements of a
\* four-element heap and the other one is still stored.
C11_Witness ==
    /\ pc = "idle"
    /\ last = "take_front"
    /\ ~fresh
    /\ Len(pre) = 4
    /\ ret[1] = "Some"
    /\ \E k \in 1..Len(heap) : heap[k] = ret[2]
    /\ \E k \in 1..Len(heap) : heap[k] /= ret[2]

\* Position k lies in the subtree rooted at position r.
RECURSIVE InSubtree(_, _)
InSubtree(k, r) ==
    IF k = r THEN TRUE
    ELSE IF k <= r THEN FALSE
    ELSE InSubtree((k - 1) \div 2, r)

\* The heap-order invariant below position r: no position of the subtree
\* rooted at r, other than r, holds an element less than its parent's.
SubtreeOrdered(h, r) ==
    \A k \in 1..(Len(h) - 1) :
        (k /= r /\ InSubtree(k, r)) => ~Less(At(h, k), At(h, (k - 1) \div 2))

\* The last sift_down of the last call has returned.
SiftDownReturned == i0 >= 0 /\ pc \in {"heapify", "idle"}

\* Some in-range child of position k holds an element less than the one at k.
ChildLess(h, k) ==
    \/ (HasLeft(h, k) /\ Less(At(h, Left(k)), At(h, k)))
    \/ (HasRight(h, k) /\ Less(At(h, Right(k)), At(h, k)))

\* C12: for a strict weak ordering, if the subtrees of both children of i
\* were heap-ordered when sift_down(i) started, then when it returns the
\* subtree rooted at i is heap-ordered, no in-range child of the final
\* position is less than the element there, and every position outside the
\* subtree rooted at i holds what it held; the loop iterates only while
\* some child is less.
C12_SiftDownLemma ==
    /\ []((SiftDownReturned /\ SubtreeOrdered(h0, Left(i0)) /\ SubtreeOrdered(h0, Right(i0))) =>
            /\ SubtreeOrdered(heap, i0)
            /\ ~ChildLess(heap, i)
            /\ Len(heap) = Len(h0)
            /\ \A k \in 0..(Len(heap) - 1) : ~InSubtree(k, i0) => At(heap, k) = At(h0, k))
    /\ [][(pc = "sift_down" /\ pc' = "sift_down") => ChildLess(heap, i)]_vars
    /\ [][(pc = "sift_down" /\ pc' /= "sift_down") => ~ChildLess(heap, i)]_vars

\* heapify's sift_down(0) on a four-element vector whose two subtrees were
\* heap-ordered has moved the root down two levels and returned.
C12_Witness ==
    /\ pc = "idle"
    /\ last = "new"
    /\ i0 = 0
    /\ Len(h0) = 4
    /\ SubtreeOrdered(h0, 1)
    /\ SubtreeOrdered(h0, 2)
    /\ ~SubtreeOrdered(h0, 0)
    /\ i = 3

\* C13: for a strict weak ordering, every swap of sift_down exchanges
\* position i with one of its in-range children whose element is less than
\* the one at i and which its sibling is not less than, so that afterwards
\* neither child is less than the element at i; when the right child is out
\* of range the left one is chosen.
C13_ChildSelection ==
    [][(pc = "sift_down" /\ pc' = "sift_down") =>
        LET s == i'
            sibling == IF s = Left(i) THEN Right(i) ELSE Left(i)
        IN  /\ s \in {Left(i), Right(i)}
            /\ InRange(heap, s)
            /\ heap' = Swap(heap, i, s)
            /\ Less(At(heap, s), At(heap, i))
            /\ InRange(heap, sibling) => ~Less(At(heap, sibling), At(heap, s))
            /\ ~ChildLess(heap', i)
            /\ ~HasRight(heap, i) => s = Left(i)]_vars

\* sift_down(0) on a four-element vector has swapped the root with its right
\* child, where the left child was less than the root too and the right
\* child less than the left.
C13_Witness ==
    /\ pc = "sift_down"
    /\ i0 = 0
    /\ i = 2
    /\ Len(h0) = 4
    /\ heap = Swap(h0, 0, 2)
    /\ Less(At(h0, 1), At(h0, 0))
    /\ Less(At(h0, 2), At(h0, 1))

\* C14: take_front on a non-empty heap returns the element that was at index
\* 0 when it was called; the former last element is moved to index 0 and
\* sift_down(0) starts from there; on a one-element heap the heap is left
\* empty and sift_down(0) dereferences nothing (so compares nothing).
C14_ReturnsFormerRoot ==
    /\ (last = "take_front" /\ pre /= <<>>) =>
          /\ pc \in {"sift_down", "idle"}
          /\ min = <<pre[1]>>
          /\ i0 = 0
          /\ Len(h0) = Len(pre) - 1
          /\ Len(pre) > 1 => h0[1] = pre[Len(pre)]
          /\ \A k \in 2..(Len(pre) - 1) : h0[k] = pre[k]
    /\ (pc = "idle" /\ last = "take_front" /\ pre /= <<>>) => ret = Some(pre[1])
    /\ (pc = "idle" /\ last = "take_front" /\ Len(pre) = 1) =>
          heap = <<>> /\ h0 = <<>> /\ acc = {}

\* A take_front on a four-element heap whose root differed from its last
\* element has returned, and the sift_down moved the former last element
\* down from the root.
C14_Witness ==
    /\ pc = "idle"
    /\ last = "take_front"
    /\ Len(pre) = 4
    /\ pre[1] /= pre[4]
    /\ ret = Some(pre[1])
    /\ heap /= h0

\* C15: during and after insert, with n the index the element was pushed
\* at: the element is at position i on the path from n to the root; every
\* position the element has passed holds its former parent's element, which
\* the new element is less than; every other position (off the path, or on
\* it above i) holds what it held before the call; and when insert returns
\* above index 0 the element is not less than its parent (an element
\* equivalent to its parent stays below it).
C15_SiftUpPath ==
    (last = "insert" /\ pc /= "panic_bounds") =>
        LET n == Len(pre) IN
        /\ Len(heap) = n + 1
        /\ InRange(heap, i)
        /\ InSubtree(n, i)
        /\ At(heap, i) = element
        /\ \A k \in 0..n :
              IF ~InSubtree(n, k) \/ k < i
              THEN At(heap, k) = At(pre, k)
              ELSE k > i =>
                    /\ At(heap, k) = At(pre, (k - 1) \div 2)
                    /\ Less(element, At(heap, k))
        /\ (pc = "idle" /\ i /= 0) => ~Less(element, At(heap, (i - 1) \div 2))

\* An element pushed at index 3 has been swapped with its parent at index 1
\* and has stopped below a root equal to it.
C15_Witness ==
    /\ pc = "idle"
    /\ last = "insert"
    /\ Len(pre) = 3
    /\ i = 1
    /\ At(heap, 0) = element
    /\ At(heap, 3) = At(pre, 1)
    /\ At(heap, 2) /= element

\* a and b are distinct and the predicate orders them in neither direction.
Incomparable(a, b) == a /= b /\ ~Less(a, b) /\ ~Less(b, a)

\* C16: when the predicate is a strict partial order that is not a strict
\* weak ordering, after construction and after every insert and take_front
\* no position other than the root holds an element less than its parent's.
C16_HeapOrderPartialOrder ==
    (pc = "idle" /\ last \in {"new", "insert", "take_front"}) =>
        \A k \in 1..(Len(heap) - 1) :
            <<At(heap, k), At(heap, (k - 1) \div 2), TRUE>> \notin cmp

\* C16 as amended: with such a partial order, no position other than the
\* root holds an element less than its parent's after construction, after
\* every take_front, and after every insert, as long as no insert has moved
\* its element up two levels or more.
C16_HeapOrderUntilDeepInsert ==
    (pc = "idle" /\ ~deep) => HeapOrdered(heap)

\* No insert has moved its element up two levels, and the last one has
\* moved its element up one level, from index 3 to index 1: the element is
\* less than the one it displaced, and the right child of the root is
\* comparable to neither of the two.
C16_Witness ==
    /\ pc = "idle"
    /\ last = "insert"
    /\ ~deep
    /\ Len(heap) = 4
    /\ i = 1
    /\ subs = {1}
    /\ Less(At(heap, 1), At(heap, 3))
    /\ Incomparable(At(heap, 1), At(heap, 2))
    /\ Incomparable(At(heap, 3), At(heap, 2))

====
